---- MODULE Spec2Model ----
(***************************************************************************)
(* Model of the tenantee front end: the PropertyPage component (tenant     *)
(* assignment workflow, candidate filtering, current-month expense total)  *)
(* and the EditTenantModal name pre-population.                            *)
(*                                                                         *)
(* The page is a single-threaded event loop: each user event, each         *)
(* delivered network response runs its handler to completion.  A handler   *)
(* that awaits a network call is split at the await: the part before it    *)
(* (guard and call) is one action, the continuation (notification and the  *)
(* finally block) is the action that delivers the response.                *)
(***************************************************************************)
EXTENDS Integers, Sequences, FiniteSets, Bags, TLC

\* number of tenants known to the server
MaxTenants == 2
\* add/remove requests that may be pending at once
MaxInFlight == 2

VARIABLES
    property,                  \* useFetch(...).data of the property (cached copy)
    isPropertyError,           \* useFetch(...).isError of the property
    refetchPending,            \* a (re)fetch of the property is under way
    tenants,                   \* useFetch(...).data.tenants (default [])
    isTenantsLoading,          \* useFetch(...).isLoading of the tenant list
    selectedTenant,            \* useState<Tenant | null>
    isConfirmAddModalOpen,     \* useDisclosure().isOpen (add)
    isConfirmRemoveModalOpen,  \* useDisclosure().isOpen (remove)
    selectValue,               \* selectRef.current.value ("" when unmounted)
    serverTenants,             \* ids assigned to the property on the server
    inflight,                  \* pending addTenant/removeTenant calls (a bag)
    last,                      \* the handler that ran last and its effects, in order
    currentDate,               \* new Date() at the time of a render
    memo,                      \* what the last render computed (<<>> before it)
    editTenant,                \* EditTenantModal: the tenant prop
    form                       \* EditTenantModal: the values of the form

vars == <<property, isPropertyError, refetchPending, tenants, isTenantsLoading,
          selectedTenant, isConfirmAddModalOpen, isConfirmRemoveModalOpen,
          selectValue, serverTenants, inflight, last,
          currentDate, memo, editTenant, form>>

\* the state of the PropertyPage workflow, and the rest
pageVars == <<property, isPropertyError, refetchPending, tenants, isTenantsLoading,
              selectedTenant, isConfirmAddModalOpen, isConfirmRemoveModalOpen,
              selectValue, serverTenants, inflight, last>>

otherVars == <<currentDate, memo, editTenant, form>>

-----------------------------------------------------------------------------
\* Values

TenantIds == 1..MaxTenants

\* a Tenant as fetched; the name is a function of the id
TenantOf(i) == [id |-> i, name |-> <<"T", i>>]

Tenant == {TenantOf(i) : i \in TenantIds}

\* the two non-tenant values selectedTenant can hold
Null == [id |-> -1, name |-> <<"null">>]

Undefined == [id |-> -1, name |-> <<"undefined">>]

\* JavaScript truthiness of a Tenant | null | undefined
Truthy(t) == t # Null /\ t # Undefined

\* the property before its first fetch has delivered data
NoProperty == [defined |-> FALSE, tenants |-> <<>>, expenses |-> <<>>]

\* the tenants of the given ids, in id order, as the server lists them
RECURSIVE TenantList(_, _)
TenantList(ids, from) ==
    IF from > MaxTenants THEN <<>>
    ELSE (IF from \in ids THEN <<TenantOf(from)>> ELSE <<>>)
         \o TenantList(ids, from + 1)

\* the string an <option value={tenant.id}> carries: the decimal digits
OptionValue(i) == <<i>>

\* Number(s) of a string of decimal digits; Number('') is 0
RECURSIVE Number(_)
Number(s) ==
    IF s = <<>> THEN 0
    ELSE 10 * Number(SubSeq(s, 1, Len(s) - 1)) + s[Len(s)]

Range(s) == {s[i] : i \in 1..Len(s)}

-----------------------------------------------------------------------------
\* Derived values of a render

\* variant of TenantOptions: the negation of includes is missing
TenantOptionsIncluded(ts, p) ==
    IF ~p.defined THEN <<>>
    ELSE SelectSeq(ts, LAMBDA tenant :
                          tenant.id \in {p.tenants[i].id : i \in 1..Len(p.tenants)})

\* the useMemo of tenantOptions: [] without data, else
\* tenants.filter((tenant) => !tenantIds.includes(tenant.id))
TenantOptions(ts, p) ==
    IF ~p.defined THEN <<>>
    ELSE LET tenantIds == [i \in 1..Len(p.tenants) |-> p.tenants[i].id]
             keep(tenant) == ~(tenant.id \in Range(tenantIds))
         IN  SelectSeq(ts, keep)

tenantOptions == TenantOptions(tenants, property)

\* the page body (tenant cards and Select) is rendered
Mounted(p, err) == ~err /\ p.defined

\* isDisabled of the Select
IsDisabled(loading, options, sel) ==
    loading \/ options = <<>> \/ sel # Null

\* tenantOptions.find((t) => t.id === Number(value)) as Tenant
Find(options, value) ==
    LET hits == SelectSeq(options, LAMBDA t : t.id = Number(value))
    IN  IF hits = <<>> THEN Undefined ELSE hits[1]

\* what the DOM select shows after a render: an unmounted select has no value,
\* and a value whose option is gone falls back to the placeholder
SelectValueAfter(value, p, err, ts) ==
    IF Mounted(p, err)
       /\ \E i \in 1..Len(TenantOptions(ts, p)) :
              OptionValue(TenantOptions(ts, p)[i].id) = value
    THEN value
    ELSE <<>>

\* a Date: getFullYear(), getMonth() (0 for January) and getDate()
NoDate == [fullYear |-> 0, month |-> 0, date |-> 0]

\* EditTenantModal: defaultValues of the form
defaultValues == [first_name |-> <<>>, last_name |-> <<>>]

-----------------------------------------------------------------------------
Init ==
    /\ property = NoProperty
    /\ isPropertyError = FALSE
    /\ refetchPending = TRUE
    /\ tenants = <<>>
    /\ isTenantsLoading = TRUE
    /\ selectedTenant = Null
    /\ isConfirmAddModalOpen = FALSE
    /\ isConfirmRemoveModalOpen = FALSE
    /\ selectValue = <<>>
    /\ serverTenants \in SUBSET TenantIds
    /\ inflight = EmptyBag
    /\ last = [op |-> "init", effects |-> <<>>]
    /\ currentDate = NoDate
    /\ memo = <<>>
    /\ editTenant = Null
    /\ form = defaultValues

-----------------------------------------------------------------------------
\* The component state a handler reads and writes, as one record, so that the
\* statements of a handler compose in source order.  effects is the ordered
\* list of the observable side effects; thrown is set by an uncaught TypeError.

Here ==
    [selectedTenant |-> selectedTenant,
     addOpen        |-> isConfirmAddModalOpen,
     removeOpen     |-> isConfirmRemoveModalOpen,
     selectValue    |-> selectValue,
     refetchPending |-> refetchPending,
     selectMounted  |-> Mounted(property, isPropertyError),
     effects        |-> <<>>,
     thrown         |-> FALSE]

Effect(st, e) == [st EXCEPT !.effects = Append(@, e)]

ShowSuccess(st) == Effect(st, "showSuccess")

ShowError(st) == Effect(st, "showError")

SetSelectedTenant(st, t) ==
    Effect([st EXCEPT !.selectedTenant = t], "setSelectedTenant")

\* mutate(): schedules a refetch of the property, returns at once
Mutate(st) == Effect([st EXCEPT !.refetchPending = TRUE], "mutate")

\* selectRef.current.value = '': selectRef.current is null while the Select is
\* not rendered, and the assignment then throws a TypeError
ResetSelect(st) ==
    IF st.selectMounted
    THEN Effect([st EXCEPT !.selectValue = <<>>], "selectReset")
    ELSE Effect([st EXCEPT !.thrown = TRUE], "throw")

CloseConfirmAddModal(st) ==
    Effect([st EXCEPT !.addOpen = FALSE], "closeConfirmAddModal")

CloseConfirmRemoveModal(st) ==
    Effect([st EXCEPT !.removeOpen = FALSE], "closeConfirmRemoveModal")

OpenConfirmAddModal(st) == [st EXCEPT !.addOpen = TRUE]

OpenConfirmRemoveModal(st) == [st EXCEPT !.removeOpen = TRUE]

\* the try/catch of both submit handlers, after the await
Notify(st, outcome) ==
    IF outcome = "ok" THEN ShowSuccess(st) ELSE ShowError(st)

\* variant of AddFinally: the modal is closed before the refetch is scheduled
AddFinallyCloseFirst(st) ==
    LET s1 == SetSelectedTenant(st, Null)
        s2 == ResetSelect(s1)
    IN  IF s2.thrown THEN s2 ELSE Mutate(CloseConfirmAddModal(s2))

\* finally block of onTenantAddSubmit
AddFinally(st) ==
    LET s1 == SetSelectedTenant(st, Null)
        s2 == Mutate(s1)
        s3 == ResetSelect(s2)
    IN  IF s3.thrown THEN s3 ELSE CloseConfirmAddModal(s3)

\* finally block of onTenantRemoveSubmit
RemoveFinally(st) ==
    LET s1 == SetSelectedTenant(st, Null)
        s2 == CloseConfirmRemoveModal(s1)
    IN  Mutate(s2)

\* the guards of the two submit handlers (the route parameter id is always
\* present on this page)
\* variant of AddSubmitGuard: the selected tenant is not tested
AddSubmitGuardNoTenant ==
    property.defined /\ Mounted(property, isPropertyError)

AddSubmitGuard ==
    property.defined /\ Truthy(selectedTenant) /\ Mounted(property, isPropertyError)

RemoveSubmitGuard == Truthy(selectedTenant)

\* the state after a handler, re-rendered
Commit(st, op) ==
    /\ selectedTenant' = st.selectedTenant
    /\ isConfirmAddModalOpen' = st.addOpen
    /\ isConfirmRemoveModalOpen' = st.removeOpen
    /\ selectValue' = st.selectValue
    /\ refetchPending' = st.refetchPending
    /\ last' = [op |-> op, effects |-> st.effects]

\* last after a step of the network rather than of a handler
Network == [op |-> "network", effects |-> <<>>]

NoModalOpen == ~isConfirmAddModalOpen /\ ~isConfirmRemoveModalOpen

-----------------------------------------------------------------------------
\* The data client (useFetch): the tenant list arrives
TenantsLoaded ==
    /\ isTenantsLoading
    /\ isTenantsLoading' = FALSE
    /\ tenants' = TenantList(TenantIds, 1)
    /\ last' = Network
    /\ UNCHANGED otherVars
    /\ UNCHANGED <<property, isPropertyError, refetchPending, selectedTenant,
                   isConfirmAddModalOpen, isConfirmRemoveModalOpen,
                   selectValue, serverTenants, inflight>>

\* The data client: a fetch of the property delivers the server's data
PropertyFetched ==
    /\ refetchPending
    /\ refetchPending' = FALSE
    /\ property' = [defined |-> TRUE, tenants |-> TenantList(serverTenants, 1),
                    expenses |-> <<>>]
    /\ isPropertyError' = FALSE
    /\ selectValue' = SelectValueAfter(selectValue, property', FALSE, tenants)
    /\ last' = Network
    /\ UNCHANGED otherVars
    /\ UNCHANGED <<tenants, isTenantsLoading, selectedTenant,
                   isConfirmAddModalOpen, isConfirmRemoveModalOpen,
                   serverTenants, inflight>>

\* The data client: a fetch of the property fails; the error flag is raised and
\* the page body is no longer rendered
PropertyFetchFailed ==
    /\ refetchPending
    /\ refetchPending' = FALSE
    /\ isPropertyError' = TRUE
    /\ selectValue' = <<>>
    /\ last' = Network
    /\ UNCHANGED otherVars
    /\ UNCHANGED <<property, tenants, isTenantsLoading, selectedTenant,
                   isConfirmAddModalOpen, isConfirmRemoveModalOpen,
                   serverTenants, inflight>>

\* Select onChange: the user picks another entry of the Select, the placeholder
\* (value '') included
SelectChange ==
    /\ Mounted(property, isPropertyError)
    /\ NoModalOpen
    /\ ~IsDisabled(isTenantsLoading, tenantOptions, selectedTenant)
    /\ \E v \in {<<>>} \cup {OptionValue(t.id) : t \in Range(tenantOptions)} :
          /\ v # selectValue
          /\ LET s1 == SetSelectedTenant([Here EXCEPT !.selectValue = v],
                                         Find(tenantOptions, v))
             IN  Commit([OpenConfirmAddModal(s1) EXCEPT !.effects = <<>>],
                        "selectChange")
    /\ UNCHANGED otherVars
    /\ UNCHANGED <<property, isPropertyError, tenants, isTenantsLoading,
                   serverTenants, inflight>>

\* TenantCard onDeleteClick
DeleteClick ==
    /\ Mounted(property, isPropertyError)
    /\ NoModalOpen
    /\ \E t \in Range(property.tenants) :
          Commit([OpenConfirmRemoveModal(SetSelectedTenant(Here, t))
                     EXCEPT !.effects = <<>>], "deleteClick")
    /\ UNCHANGED otherVars
    /\ UNCHANGED <<property, isPropertyError, tenants, isTenantsLoading,
                   serverTenants, inflight>>

\* onTenantAddSubmit up to the await (the add modal's confirm button)
TenantAddSubmit ==
    /\ isConfirmAddModalOpen
    /\ IF AddSubmitGuard
       THEN /\ BagCardinality(inflight) < MaxInFlight
            /\ inflight' = inflight (+) SetToBag(
                   {[op |-> "addTenant", tenant |-> selectedTenant, status |-> "sent"]})
            /\ Commit(Effect(Here, "addTenant"), "onTenantAddSubmit")
       ELSE /\ inflight' = inflight
            /\ Commit(Here, "onTenantAddSubmit")
    /\ UNCHANGED otherVars
    /\ UNCHANGED <<property, isPropertyError, tenants, isTenantsLoading,
                   serverTenants>>

\* onTenantAddCancel (the add modal's onClose)
TenantAddCancel ==
    /\ isConfirmAddModalOpen
    /\ Commit(CloseConfirmAddModal(SetSelectedTenant(Here, Null)),
              "onTenantAddCancel")
    /\ UNCHANGED otherVars
    /\ UNCHANGED <<property, isPropertyError, tenants, isTenantsLoading,
                   serverTenants, inflight>>

\* onTenantRemoveSubmit up to the await (the remove modal's confirm button)
TenantRemoveSubmit ==
    /\ isConfirmRemoveModalOpen
    /\ IF RemoveSubmitGuard
       THEN /\ BagCardinality(inflight) < MaxInFlight
            /\ inflight' = inflight (+) SetToBag(
                   {[op |-> "removeTenant", tenant |-> selectedTenant, status |-> "sent"]})
            /\ Commit(Effect(Here, "removeTenant"), "onTenantRemoveSubmit")
       ELSE /\ inflight' = inflight
            /\ Commit(Here, "onTenantRemoveSubmit")
    /\ UNCHANGED otherVars
    /\ UNCHANGED <<property, isPropertyError, tenants, isTenantsLoading,
                   serverTenants>>

\* the remove modal's onClose is closeConfirmRemoveModal itself
TenantRemoveCancel ==
    /\ isConfirmRemoveModalOpen
    /\ Commit(CloseConfirmRemoveModal(Here), "closeConfirmRemoveModal")
    /\ UNCHANGED otherVars
    /\ UNCHANGED <<property, isPropertyError, tenants, isTenantsLoading,
                   serverTenants, inflight>>

\* The property API: the server carries out a pending call
ServerHandles ==
    \E c \in BagToSet(inflight) :
        /\ c.status = "sent"
        /\ inflight' = (inflight (-) SetToBag({c}))
                         (+) SetToBag({[c EXCEPT !.status = "done"]})
        /\ serverTenants' =
             IF c.op = "addTenant"
             THEN serverTenants \cup {c.tenant.id}
             ELSE serverTenants \ {c.tenant.id}
        /\ last' = Network
        /\ UNCHANGED otherVars
        /\ UNCHANGED <<property, isPropertyError, refetchPending, tenants,
                       isTenantsLoading, selectedTenant, isConfirmAddModalOpen,
                       isConfirmRemoveModalOpen, selectValue>>

\* how the promise of a pending call can settle: it resolves once the server
\* has carried the call out, and it can reject at any time (the request or the
\* response is lost, or the server refuses)
Outcomes(c) == IF c.status = "done" THEN {"ok", "failed"} ELSE {"failed"}

\* onTenantAddSubmit from the await on: the promise of addTenant settles
TenantAddSettled ==
    \E c \in BagToSet(inflight) : \E outcome \in Outcomes(c) :
        /\ c.op = "addTenant"
        /\ inflight' = inflight (-) SetToBag({c})
        /\ Commit(AddFinally(Notify(Effect(Here, "addTenant"), outcome)),
                  "addTenantSettled")
        /\ UNCHANGED otherVars
        /\ UNCHANGED <<property, isPropertyError, tenants, isTenantsLoading,
                       serverTenants>>

\* onTenantRemoveSubmit from the await on
TenantRemoveSettled ==
    \E c \in BagToSet(inflight) : \E outcome \in Outcomes(c) :
        /\ c.op = "removeTenant"
        /\ inflight' = inflight (-) SetToBag({c})
        /\ Commit(RemoveFinally(Notify(Effect(Here, "removeTenant"), outcome)),
                  "removeTenantSettled")
        /\ UNCHANGED otherVars
        /\ UNCHANGED <<property, isPropertyError, tenants, isTenantsLoading,
                       serverTenants>>

Next ==
    \/ TenantsLoaded
    \/ PropertyFetched
    \/ PropertyFetchFailed
    \/ SelectChange
    \/ DeleteClick
    \/ TenantAddSubmit
    \/ TenantAddCancel
    \/ TenantRemoveSubmit
    \/ TenantRemoveCancel
    \/ ServerHandles
    \/ TenantAddSettled
    \/ TenantRemoveSettled

Spec == Init /\ [][Next]_vars

-----------------------------------------------------------------------------
\* tenantOptions and the Select's isDisabled over every tenant list and property

\* sequences without repetition over the set S (ids are unique on the server)
RECURSIVE DistinctSeqs(_)
DistinctSeqs(S) ==
    {<<>>} \cup UNION {{<<x>> \o r : r \in DistinctSeqs(S \ {x})} : x \in S}

\* one render of the Select: the memo and the isDisabled prop
RenderSelect ==
    /\ memo = <<>>
    /\ memo' = <<[options  |-> tenantOptions,
                  disabled |-> IsDisabled(isTenantsLoading, tenantOptions,
                                          selectedTenant),
                  tenants  |-> tenants,
                  property |-> property]>>
    /\ UNCHANGED <<pageVars, currentDate, editTenant, form>>

InitCandidates ==
    /\ property \in {NoProperty}
          \cup {[defined |-> TRUE, tenants |-> ts, expenses |-> <<>>] :
                   ts \in DistinctSeqs(Tenant)}
    /\ tenants \in DistinctSeqs(Tenant)
    /\ isTenantsLoading \in BOOLEAN
    /\ selectedTenant \in {Null} \cup Tenant
    /\ isPropertyError = FALSE
    /\ refetchPending = FALSE
    /\ isConfirmAddModalOpen = FALSE
    /\ isConfirmRemoveModalOpen = FALSE
    /\ selectValue = <<>>
    /\ serverTenants = {}
    /\ inflight = EmptyBag
    /\ last = [op |-> "init", effects |-> <<>>]
    /\ currentDate = NoDate
    /\ memo = <<>>
    /\ editTenant = Null
    /\ form = defaultValues

SpecCandidates == InitCandidates /\ [][RenderSelect]_vars

-----------------------------------------------------------------------------
\* The current-month expense total and the chart's Expenses entry

\* expenses per property
MaxExpenses == 2

\* expense.date is a date string, its fields year, month (1 for January), day
Years == {2023, 2024}

Months == {1, 2}

DateStrings == {<<y, m, 1>> : y \in Years, m \in Months}

\* expense.amount.amount, a decimal string
Amounts == {<<5>>, <<1, 0>>}

Expense == [date : DateStrings, amount : [amount : Amounts]]

\* new Date(dateString): the calendar fields of the date, months from 0
NewDate(d) == [fullYear |-> d[1], month |-> d[2] - 1, date |-> d[3]]

\* variant of InCurrentMonth: the years are not compared
InCurrentMonthAnyYear(expense, now) ==
    NewDate(expense.date).month = now.month

\* the predicate of property.expenses.filter(...)
InCurrentMonth(expense, now) ==
    LET expenseDate == NewDate(expense.date)
    IN  /\ expenseDate.month = now.month
        /\ expenseDate.fullYear = now.fullYear

\* expenses.reduce((acc, expense) => acc + Number(expense.amount.amount), 0)
RECURSIVE Reduce(_)
Reduce(es) ==
    IF es = <<>> THEN 0
    ELSE Reduce(SubSeq(es, 1, Len(es) - 1)) + Number(es[Len(es)].amount.amount)

\* the useMemo of expenses: null (<<>>) without a property, else <<total>>
ExpensesMemo(p, now) ==
    IF ~p.defined THEN <<>>
    ELSE <<Reduce(SelectSeq(p.expenses, LAMBDA e : InCurrentMonth(e, now)))>>

\* chartData: the value of the Expenses entry, expenses ?? 0
ChartExpenses(e) == IF e = <<>> THEN 0 ELSE e[1]

RECURSIVE SeqsUpTo(_, _)
SeqsUpTo(S, n) ==
    IF n = 0 THEN {<<>>}
    ELSE SeqsUpTo(S, n - 1)
         \cup {Append(r, x) : r \in {q \in SeqsUpTo(S, n - 1) : Len(q) = n - 1},
                              x \in S}

\* one render of the chart
RenderChart ==
    /\ memo = <<>>
    /\ memo' = <<[expenses |-> ExpensesMemo(property, currentDate),
                  chart    |-> ChartExpenses(ExpensesMemo(property, currentDate))]>>
    /\ UNCHANGED <<pageVars, currentDate, editTenant, form>>

InitExpenses ==
    /\ property \in {NoProperty}
          \cup {[defined |-> TRUE, tenants |-> <<>>, expenses |-> es] :
                   es \in SeqsUpTo(Expense, MaxExpenses)}
    /\ currentDate \in {NewDate(d) : d \in DateStrings}
    /\ tenants = <<>>
    /\ isTenantsLoading = TRUE
    /\ selectedTenant = Null
    /\ isPropertyError = FALSE
    /\ refetchPending = FALSE
    /\ isConfirmAddModalOpen = FALSE
    /\ isConfirmRemoveModalOpen = FALSE
    /\ selectValue = <<>>
    /\ serverTenants = {}
    /\ inflight = EmptyBag
    /\ last = [op |-> "init", effects |-> <<>>]
    /\ memo = <<>>
    /\ editTenant = Null
    /\ form = defaultValues

SpecExpenses == InitExpenses /\ [][RenderChart]_vars

-----------------------------------------------------------------------------
\* EditTenantModal: the effect that pre-populates the form from tenant.name

\* characters of a display name
MaxNameLen == 5

Chars == {"a", "b", " ", "\t"}

\* the value of an array element that does not exist
UndefinedString == <<"undefined">>

\* the index of the first occurrence of c in s from position i on; 0 if none
RECURSIVE IndexOf(_, _, _)
IndexOf(s, c, i) ==
    IF i > Len(s) THEN 0
    ELSE IF s[i] = c THEN i
    ELSE IndexOf(s, c, i + 1)

\* String.prototype.split(' '): cut at every single space character
RECURSIVE Split(_)
Split(s) ==
    LET i == IndexOf(s, " ", 1)
    IN  IF i = 0 THEN <<s>>
        ELSE <<SubSeq(s, 1, i - 1)>> \o Split(SubSeq(s, i + 1, Len(s)))

\* array[k], k counted from 0
At(array, k) == IF k + 1 <= Len(array) THEN array[k + 1] ELSE UndefinedString

\* variant of ResetValues: the name is cut at tabs as well as at spaces
ResetValuesAnyWhitespace(name) ==
    LET spaced == [i \in 1..Len(name) |-> IF name[i] = "\t" THEN " " ELSE name[i]]
    IN  [first_name |-> At(Split(spaced), 0), last_name |-> At(Split(spaced), 1)]

\* the object passed to reset(...)
ResetValues(name) ==
    [first_name |-> At(Split(name), 0), last_name |-> At(Split(name), 1)]

\* useEffect(() => { if (tenant) reset({...}) }, [tenant, reset])
EditEffect ==
    /\ memo = <<>>
    /\ memo' = <<"effect">>
    /\ form' = IF Truthy(editTenant) THEN ResetValues(editTenant.name) ELSE form
    /\ UNCHANGED <<pageVars, currentDate, editTenant>>

InitName ==
    /\ editTenant \in {Null}
          \cup {[id |-> 1, name |-> n] : n \in SeqsUpTo(Chars, MaxNameLen)}
    /\ form = defaultValues
    /\ property = NoProperty
    /\ currentDate = NoDate
    /\ tenants = <<>>
    /\ isTenantsLoading = TRUE
    /\ selectedTenant = Null
    /\ isPropertyError = FALSE
    /\ refetchPending = FALSE
    /\ isConfirmAddModalOpen = FALSE
    /\ isConfirmRemoveModalOpen = FALSE
    /\ selectValue = <<>>
    /\ serverTenants = {}
    /\ inflight = EmptyBag
    /\ last = [op |-> "init", effects |-> <<>>]
    /\ memo = <<>>

SpecName == InitName /\ [][EditEffect]_vars

-----------------------------------------------------------------------------
\* Properties of the tenant-assignment workflow (checked under Spec)

Settled == {"addTenantSettled", "removeTenantSettled"}

\* the position of effect e in a handler's effects, 0 if it did not occur
Pos(effects, e) == IndexOf(effects, e, 1)

\* C1: whenever the promise of a confirmed submission settles, resolved or
\* rejected, afterwards selectedTenant is null, the corresponding confirmation
\* modal is closed and a refetch of the property has been triggered.
C1_SettledReturnsToIdle ==
    /\ last.op = "addTenantSettled"
          => selectedTenant = Null /\ ~isConfirmAddModalOpen /\ refetchPending
    /\ last.op = "removeTenantSettled"
          => selectedTenant = Null /\ ~isConfirmRemoveModalOpen /\ refetchPending

\* C2: at most one addTenant/removeTenant call is pending at any time.
C2_AtMostOneInFlight == BagCardinality(inflight) <= 1

\* C3: cancelling a confirmation modal while no call is pending returns the
\* workflow to Idle: selectedTenant is null, the modal is closed, no API call
\* was made, and the Select is enabled again when it has options to offer.
C3_CancelReturnsToIdle ==
    (last.op \in {"onTenantAddCancel", "closeConfirmRemoveModal"}
        /\ inflight = EmptyBag)
    => /\ selectedTenant = Null
       /\ ~isConfirmAddModalOpen /\ ~isConfirmRemoveModalOpen
       /\ Pos(last.effects, "addTenant") = 0
       /\ Pos(last.effects, "removeTenant") = 0
       /\ (~isTenantsLoading /\ tenantOptions # <<>>)
             => ~IsDisabled(isTenantsLoading, tenantOptions, selectedTenant)

\* C4: addTenant is never called with a tenant that is already assigned to the
\* property on the server.
C4_NoDuplicateAssignment ==
    (last.op = "onTenantAddSubmit" /\ Pos(last.effects, "addTenant") > 0)
    => selectedTenant.id \notin serverTenants

\* C10: whenever the add-confirmation modal is open, selectedTenant is a tenant
\* of the current candidate set.
C10_AddModalHoldsCandidate ==
    isConfirmAddModalOpen => selectedTenant \in Range(tenantOptions)

\* C6 as stated: for both submissions the effects occur in the order API call,
\* notification, selection reset, modal close, refetch scheduling.
C6_OrderAsStated ==
    last.op \in Settled
    => LET e == last.effects
           close == IF last.op = "addTenantSettled"
                    THEN "closeConfirmAddModal" ELSE "closeConfirmRemoveModal"
       IN  /\ Pos(e, "setSelectedTenant") > 0
           /\ Pos(e, "setSelectedTenant") < Pos(e, close)
           /\ Pos(e, close) < Pos(e, "mutate")

\* C6 as amended: a remove submission's effects are, in order, API call,
\* notification, selection reset, modal close, refetch scheduling; an add
\* submission's are API call, notification, selection reset, refetch
\* scheduling, Select reset, modal close, the last two replaced by a TypeError
\* when the Select is not rendered.
C6_OrderOfEffects ==
    /\ last.op = "removeTenantSettled"
          => \E n \in {"showSuccess", "showError"} :
                last.effects = <<"removeTenant", n, "setSelectedTenant",
                                 "closeConfirmRemoveModal", "mutate">>
    /\ last.op = "addTenantSettled"
          => \E n \in {"showSuccess", "showError"} :
                \/ last.effects = <<"addTenant", n, "setSelectedTenant", "mutate",
                                    "selectReset", "closeConfirmAddModal">>
                \/ last.effects = <<"addTenant", n, "setSelectedTenant", "mutate",
                                    "throw">>

C6_Witness ==
    /\ last.op = "addTenantSettled"
    /\ Pos(last.effects, "closeConfirmAddModal") > 0
    /\ Pos(last.effects, "showSuccess") > 0

C7_WitnessRemove ==
    /\ last.op = "onTenantRemoveSubmit"
    /\ selectedTenant = Null
    /\ isConfirmRemoveModalOpen
    /\ last.effects = <<>>

-----------------------------------------------------------------------------
\* Properties of tenantOptions (checked under SpecCandidates)

\* C5: the candidates are exactly the tenants of the list whose id is not among
\* the ids of property.tenants, without duplicates; computing them modifies
\* neither input; and the Select is disabled when there are none.
C5_CandidatesExact ==
    memo # <<>>
    => LET r == memo[1]
           assigned == {t.id : t \in Range(property.tenants)}
       IN  /\ property.defined
                => Range(r.options) = {t \in Range(tenants) : t.id \notin assigned}
           /\ ~property.defined => r.options = <<>>
           /\ \A i, j \in 1..Len(r.options) :
                 i # j => r.options[i].id # r.options[j].id
           /\ r.tenants = tenants /\ r.property = property
           /\ r.options = <<>> => r.disabled

C5_Witness ==
    /\ memo # <<>>
    /\ property.defined
    /\ memo[1].options # <<>>
    /\ Len(memo[1].options) < Len(tenants)
    /\ ~memo[1].disabled

-----------------------------------------------------------------------------
\* Properties of the expense total (checked under SpecExpenses)

\* the sum of the amounts of the expenses at the indices I
RECURSIVE SumAt(_, _)
SumAt(es, I) ==
    IF I = {} THEN 0
    ELSE LET i == CHOOSE k \in I : TRUE
         IN  Number(es[i].amount.amount) + SumAt(es, I \ {i})

\* the expenses dated in the calendar month and year of now
ThisMonth(es, now) ==
    {i \in 1..Len(es) : es[i].date[1] = now.fullYear /\ es[i].date[2] = now.month + 1}

Reordered(es, perm) == [i \in 1..Len(es) |-> es[perm[i]]]

\* C8: the Expenses value is the sum of the amounts of exactly the expenses
\* dated in the calendar month and year of the current date; it is 0 without a
\* property and for an empty list; and it is the same for every order of the
\* expenses.
C8_CurrentMonthTotal ==
    memo # <<>>
    => LET es == property.expenses
       IN  /\ property.defined
                => memo[1].chart = SumAt(es, ThisMonth(es, currentDate))
           /\ (~property.defined \/ es = <<>>) => memo[1].chart = 0
           /\ ~property.defined => memo[1].expenses = <<>>
           /\ \A perm \in Permutations(1..Len(es)) :
                 ChartExpenses(ExpensesMemo(
                     [property EXCEPT !.expenses = Reordered(es, perm)],
                     currentDate)) = memo[1].chart

C8_Witness ==
    /\ memo # <<>>
    /\ property.defined
    /\ memo[1].chart > 0
    /\ \E i, j \in 1..Len(property.expenses) :
          /\ i \in ThisMonth(property.expenses, currentDate)
          /\ property.expenses[j].date[2] = currentDate.month + 1
          /\ property.expenses[j].date[1] # currentDate.fullYear

-----------------------------------------------------------------------------
\* Properties of the name pre-population (checked under SpecName)

Whitespace == {" ", "\t"}

\* the whitespace-delimited tokens of s
RECURSIVE Tokens(_)
Tokens(s) ==
    IF s = <<>> THEN <<>>
    ELSE IF s[1] \in Whitespace THEN Tokens(Tail(s))
    ELSE LET rest == {i \in 1..Len(s) : s[i] \in Whitespace}
             end == IF rest = {} THEN Len(s) + 1
                    ELSE CHOOSE i \in rest : \A k \in rest : i <= k
         IN  <<SubSeq(s, 1, end - 1)>> \o Tokens(SubSeq(s, end, Len(s)))

Populated == memo # <<>> /\ Truthy(editTenant)

\* C9 as stated: first_name is the first whitespace-delimited token of the
\* name and last_name the second, whatever follows being dropped.
C9_FirstTwoTokens ==
    (Populated /\ Len(Tokens(editTenant.name)) >= 2)
    => /\ form.first_name = Tokens(editTenant.name)[1]
       /\ form.last_name = Tokens(editTenant.name)[2]

\* the positions of the space characters of s, and the k-th of them
Spaces(s) == {i \in 1..Len(s) : s[i] = " "}

NthSpace(s, k) ==
    CHOOSE i \in Spaces(s) : Cardinality({j \in Spaces(s) : j <= i}) = k

\* the name is two or more tokens with exactly one space between neighbours,
\* and no other whitespace
SingleSpaced(s) ==
    /\ Len(Tokens(s)) >= 2
    /\ \A i \in 1..Len(s) : s[i] # "\t"
    /\ s[1] # " " /\ s[Len(s)] # " "
    /\ \A i \in 1..(Len(s) - 1) : ~(s[i] = " " /\ s[i + 1] = " ")

\* C9 as amended: first_name is the text before the first space character (the
\* whole name if it has none); last_name is the text between the first and the
\* second space character (up to the end if there is one space only, undefined
\* if there is none); what follows the second space is dropped.  For a name of
\* two or more tokens separated by single spaces these are its first two tokens.
C9_SplitAtSpaces ==
    Populated
    => LET s == editTenant.name
           n == Cardinality(Spaces(s))
       IN  /\ form.first_name =
                 IF n = 0 THEN s ELSE SubSeq(s, 1, NthSpace(s, 1) - 1)
           /\ form.last_name =
                 IF n = 0 THEN UndefinedString
                 ELSE IF n = 1 THEN SubSeq(s, NthSpace(s, 1) + 1, Len(s))
                 ELSE SubSeq(s, NthSpace(s, 1) + 1, NthSpace(s, 2) - 1)
           /\ SingleSpaced(s)
                => /\ form.first_name = Tokens(s)[1]
                   /\ form.last_name = Tokens(s)[2]

C9_Witness ==
    /\ Populated
    /\ editTenant.name = <<"a", " ", "b", " ", "a">>
    /\ form = [first_name |-> <<"a">>, last_name |-> <<"b">>]
====
